---- MODULE Spec2Model ----
(***************************************************************************)
(* Lloyd's k-means over 2-D points in its three engines:                   *)
(*   kMeans          (k_means_clustering.c)          sequential            *)
(*   kMeans_omp      (k_means_clustering_omp_cpu.c)  OpenMP threads        *)
(*   kMeans_omp_gpu  (k_means_clustering_omp_gpu.c)  OpenMP target offload *)
(* One behaviour takes one point set, one k and one outcome of the rand()  *)
(* labelling and calls the three engines on it, one after the other, each  *)
(* on its own copy of the labels.                                          *)
(*                                                                         *)
(* Arithmetic is exact: a double is the fraction n/d.  d = 0 is a          *)
(* non-finite value: 0/0 is the NaN that x / 0.0 yields for x = 0 under    *)
(* IEC 60559, 1/0 stands for a value above every finite one.               *)
(***************************************************************************)
EXTENDS Integers, Sequences, FiniteSets, TLC

\* ---------------------------------------------------------------- bounds
MaxN == 3          \* most points of a grid point set
MaxThreads == 2    \* most OpenMP threads of a team

\* ------------------------------------------------------------- constants
ErrDivisor == 10000   \* minAcceptedError = size / 10000

Coords == {0, 1}      \* coordinates of the grid point sets

\* ------------------------------------------------------------ arithmetic
Rat(num, den) == [n |-> num, d |-> den]
Zero == Rat(0, 1)
\* DBL_MAX: above every finite distance of the bounded inputs
DBL_MAX == Rat(1, 0)
\* a + b
AddR(a, b) == Rat(a.n * b.d + b.n * a.d, a.d * b.d)
\* a += v for a point coordinate v
AddI(a, v) == Rat(a.n + v * a.d, a.d)
\* a - v for a point coordinate v
SubI(a, v) == Rat(a.n - v * a.d, a.d)
\* a * b
MulR(a, b) == Rat(a.n * b.n, a.d * b.d)
\* a / c for a member count c; c = 0 gives the non-finite quotient
DivI(a, c) == Rat(a.n, a.d * c)
\* a < b, false when a is NaN or not finite (b is DBL_MAX or finite)
Less(a, b) ==
    IF a.d = 0 THEN FALSE
    ELSE IF b.d = 0 THEN b.n > 0
    ELSE a.n * b.d < b.n * a.d
\* a = b as finite numbers
RatEq(a, b) == a.d # 0 /\ b.d # 0 /\ a.n * b.d = b.n * a.d

\* ------------------------------------------------------------ data types
Obs(px, py) == [x |-> px, y |-> py]
ZeroCluster == [x |-> Zero, y |-> Zero, count |-> 0]
\* memset(clusters, 0, k * sizeof(cluster))
ZeroClusters(kk) == [i \in 1..kk |-> ZeroCluster]

RECURSIVE SumFrom(_, _)
SumFrom(s, i) == IF i > Len(s) THEN 0 ELSE s[i] + SumFrom(s, i + 1)
\* the sum of the sequence s (s is bound as a value, so it is built once)
SumSeq(s) == CHOOSE r \in {SumFrom(v, 1) : v \in {s}} : TRUE

\* ------------------------------------------------- nearest-centroid scan
\* the for loop of calculateNearst from index i on, minD and index so far
RECURSIVE NearstScan(_, _, _, _, _, _)
NearstScan(o, cl, kk, i, minD, index) ==
    IF i >= kk THEN index
    ELSE LET dist == AddR(MulR(SubI(cl[i + 1].x, o.x), SubI(cl[i + 1].x, o.x)),
                          MulR(SubI(cl[i + 1].y, o.y), SubI(cl[i + 1].y, o.y)))
         IN  IF Less(dist, minD)
             THEN NearstScan(o, cl, kk, i + 1, dist, i)
             ELSE NearstScan(o, cl, kk, i + 1, minD, index)

\* mutant: minD starts at 0 instead of DBL_MAX
calculateNearstZeroMin(o, cl, kk) == NearstScan(o, cl, kk, 0, Zero, -1)

\* mutant: the scan with dist <= minD, so the last of equal distances wins
RECURSIVE NearstScanLastMin(_, _, _, _, _, _)
NearstScanLastMin(o, cl, kk, i, minD, index) ==
    IF i >= kk THEN index
    ELSE LET dist == AddR(MulR(SubI(cl[i + 1].x, o.x), SubI(cl[i + 1].x, o.x)),
                          MulR(SubI(cl[i + 1].y, o.y), SubI(cl[i + 1].y, o.y)))
         IN  IF Less(dist, minD) \/ RatEq(dist, minD)
             THEN NearstScanLastMin(o, cl, kk, i + 1, dist, i)
             ELSE NearstScanLastMin(o, cl, kk, i + 1, minD, index)
calculateNearstLastMin(o, cl, kk) == NearstScanLastMin(o, cl, kk, 0, DBL_MAX, -1)

calculateNearst(o, cl, kk) == NearstScan(o, cl, kk, 0, DBL_MAX, -1)

\* the scan inlined in the target region of kMeans_omp_gpu
RECURSIVE GpuScan(_, _, _, _, _, _)
GpuScan(o, cl, kk, c, minD, best) ==
    IF c >= kk THEN best
    ELSE LET dx == SubI(cl[c + 1].x, o.x)
             dy == SubI(cl[c + 1].y, o.y)
             dist == AddR(MulR(dx, dx), MulR(dy, dy))
         IN  IF Less(dist, minD)
             THEN GpuScan(o, cl, kk, c + 1, dist, c)
             ELSE GpuScan(o, cl, kk, c + 1, minD, best)

GpuNearest(o, cl, kk) == GpuScan(o, cl, kk, 0, DBL_MAX, -1)

\* number of labels an assignment pass changes
Churn(old, new) == Cardinality({j \in DOMAIN old : new[j] # old[j]})

\* ------------------------------------------------------------ sequential
\* mutant: the sums are never divided by the count
calculateCentroidNoDivide(obs) ==
    [x |-> Rat(SumSeq([j \in 1..Len(obs) |-> obs[j].x]), 1),
     y |-> Rat(SumSeq([j \in 1..Len(obs) |-> obs[j].y]), 1),
     count |-> Len(obs)]

\* calculateCentroid: the mean of all observations, count = size
calculateCentroid(obs) ==
    LET size == Len(obs)
        sx == SumSeq([j \in 1..size |-> obs[j].x])
        sy == SumSeq([j \in 1..size |-> obs[j].y])
    IN  [x |-> DivI(Rat(sx, 1), size), y |-> DivI(Rat(sy, 1), size), count |-> size]

\* STEP 2 accumulation of kMeans over observations j..size
RECURSIVE SeqAccumulate(_, _, _, _)
SeqAccumulate(cl, obs, grp, j) ==
    IF j > Len(obs) THEN cl
    ELSE LET t == grp[j] + 1
         IN  SeqAccumulate([cl EXCEPT ![t] = [x |-> AddI(@.x, obs[j].x),
                                              y |-> AddI(@.y, obs[j].y),
                                              count |-> @.count + 1]],
                           obs, grp, j + 1)

\* the division loop of kMeans: every centroid, whatever its count
SeqDivide(cl) ==
    [i \in DOMAIN cl |-> [x |-> DivI(cl[i].x, cl[i].count),
                          y |-> DivI(cl[i].y, cl[i].count),
                          count |-> cl[i].count]]

\* mutant: the division loop is missing
SeqUpdateStepNoDivide(obs, grp, kk) == SeqAccumulate(ZeroClusters(kk), obs, grp, 1)

\* initialise clusters, STEP 2 and the division
SeqUpdateStep(obs, grp, kk) == SeqDivide(SeqAccumulate(ZeroClusters(kk), obs, grp, 1))

\* STEP 3 and 4: the new label of every observation
SeqAssignStep(obs, cl, kk) == [j \in DOMAIN obs |-> calculateNearst(obs[j], cl, kk)]

\* the else branch: each observation its own cluster
SingletonClusters(obs, kk) ==
    [i \in 1..kk |-> IF i <= Len(obs)
                     THEN [x |-> Rat(obs[i].x, 1), y |-> Rat(obs[i].y, 1), count |-> 1]
                     ELSE ZeroCluster]
\* mutant: labels counted from 1
SingletonGroupsOneBased(obs) == [j \in DOMAIN obs |-> j]
SingletonGroups(obs) == [j \in DOMAIN obs |-> j - 1]

\* ------------------------------------------------------------------ state
VARIABLES
    pts,       \* the observations: coordinates, fixed during a behaviour
    k,         \* the number of clusters asked for
    init,      \* the labels rand() % k gave in STEP 1, <<>> before the first draw
    cur,       \* index in Order of the engine being run, Len(Order) + 1 when all ran
    pc,        \* position of the running engine
    groups,    \* observations[j].group / groups[j] of the running engine
    clusters,  \* clusters[] / cent_x, cent_y, cent_count of the running engine
    changed,   \* the churn counter of the running engine
    nthreads,  \* team size of kMeans_omp (omp_set_num_threads), 0 outside it
    wpc,       \* position of every thread of the team in the current region
    local,     \* local_x, local_y, local_count of every thread
    lock,      \* the thread inside the critical section, 0 when none
    wchanged,  \* every thread's private copy of changed (reduction)
    result     \* what every engine returned

vars == <<pts, k, init, cur, pc, groups, clusters, changed,
          nthreads, wpc, local, lock, wchanged, result>>

team == <<nthreads, wpc, local, lock, wchanged>>

Order == <<"seq", "omp", "gpu">>
Engines == {Order[i] : i \in DOMAIN Order}
Running(e) == cur \in DOMAIN Order /\ Order[cur] = e

size == Len(pts)
\* mutant: the threshold rounded up
minAcceptedErrorCeil == (size + ErrDivisor - 1) \div ErrDivisor
\* mutant: the while test written changed >= minAcceptedError
minAcceptedErrorBelow == size \div ErrDivisor - 1
minAcceptedError == size \div ErrDivisor
NoResult == [done |-> FALSE, groups |-> <<>>, clusters |-> <<>>]
ZeroGroups == [j \in 1..size |-> 0]

\* ----------------------------------------------------------------- inputs
\* the point sets over the grid, each listed once (in lexicographic order)
Key(o) == o.x * (1 + Cardinality(Coords)) + o.y
GridPoints == {Obs(cx, cy) : cx \in Coords, cy \in Coords}
GridInputs ==
    UNION {{s \in [1..n -> GridPoints] :
              \A i \in 1..n : \A j \in 1..n : i < j => Key(s[i]) <= Key(s[j])}
           : n \in 1..MaxN}
\* the four points of the worked scenario
Scenario == <<Obs(0, 0), Obs(0, 1), Obs(10, 0), Obs(10, 1)>>

\* STEP 1: g is what rand() % k gives for every observation; the engines are
\* compared from the same draw, so a later engine is given the labels of the
\* first one
RandomLabels(g) ==
    /\ g \in [1..size -> 0..(k - 1)]
    /\ init = <<>> \/ init = g

\* the state at the first call: a sorted grid input with k from 0 to n + 1 (for
\* the inputs of MaxN points only k < n), or the worked scenario with k = 2
Init ==
    /\ \/ /\ pts \in GridInputs
          /\ k \in 0..(IF Len(pts) < MaxN THEN Len(pts) + 1 ELSE Len(pts) - 1)
       \/ /\ pts = Scenario
          /\ k = 2
    /\ init = <<>>
    /\ cur = 1
    /\ pc = "call"
    /\ groups = [j \in 1..Len(pts) |-> 0]
    /\ clusters = <<>>
    /\ changed = 0
    /\ nthreads = 0
    /\ wpc = <<>>
    /\ local = <<>>
    /\ lock = 0
    /\ wchanged = <<>>
    /\ result = [e \in Engines |-> NoResult]

\* ------------------------------------------------------- kMeans (sequential)
SeqCall ==
    /\ Running("seq") /\ pc = "call"
    /\ IF k <= 1
       THEN /\ clusters' = <<calculateCentroid(pts)>>
            /\ groups' = ZeroGroups
            /\ pc' = "return"
            /\ init' = init
       ELSE IF k < size
       THEN /\ clusters' = ZeroClusters(k)
            /\ \E g \in [1..size -> 0..(k - 1)] :
                  RandomLabels(g) /\ groups' = g /\ init' = g
            /\ pc' = "update"
       ELSE /\ clusters' = SingletonClusters(pts, k)
            /\ groups' = SingletonGroups(pts)
            /\ pc' = "return"
            /\ init' = init
    /\ changed' = 0
    /\ UNCHANGED <<pts, k, cur, team, result>>

SeqUpdate ==
    /\ Running("seq") /\ pc = "update"
    /\ clusters' = SeqUpdateStep(pts, groups, k)
    /\ pc' = "assign"
    /\ UNCHANGED <<pts, k, init, cur, groups, changed, team, result>>

SeqAssign ==
    /\ Running("seq") /\ pc = "assign"
    /\ groups' = SeqAssignStep(pts, clusters, k)
    /\ changed' = Churn(groups, groups')
    /\ pc' = IF changed' > minAcceptedError THEN "update" ELSE "return"
    /\ UNCHANGED <<pts, k, init, cur, clusters, team, result>>

\* ------------------------------------------------- kMeans_omp (OpenMP CPU)
\* schedule(static) without a chunk size: thread t of T (1-based) gets one
\* contiguous block of the iterations 1..N, the first N % T blocks one longer
ChunkLo(t, T, N) ==
    LET q == N \div T
        r == N % T
    IN  (t - 1) * q + (IF t - 1 < r THEN t - 1 ELSE r) + 1
ChunkHi(t, T, N) ==
    LET q == N \div T
        r == N % T
    IN  ChunkLo(t, T, N) + q + (IF t - 1 < r THEN 1 ELSE 0) - 1
Chunk(t, T, N) == ChunkLo(t, T, N)..ChunkHi(t, T, N)

\* mutant: the scan stops one observation short of the thread's share
RECURSIVE OmpAccumulateLocalShort(_, _, _, _, _)
OmpAccumulateLocalShort(buf, obs, grp, j, hi) ==
    IF j >= hi THEN buf
    ELSE LET t == grp[j] + 1
         IN  OmpAccumulateLocalShort([buf EXCEPT ![t] = [x |-> AddI(@.x, obs[j].x),
                                                        y |-> AddI(@.y, obs[j].y),
                                                        count |-> @.count + 1]],
                                     obs, grp, j + 1, hi)

\* the omp for loop of etapa 2 over the observations j..hi of one thread,
\* into its local_x, local_y, local_count
RECURSIVE OmpAccumulateLocal(_, _, _, _, _)
OmpAccumulateLocal(buf, obs, grp, j, hi) ==
    IF j > hi THEN buf
    ELSE LET t == grp[j] + 1
         IN  OmpAccumulateLocal([buf EXCEPT ![t] = [x |-> AddI(@.x, obs[j].x),
                                                   y |-> AddI(@.y, obs[j].y),
                                                   count |-> @.count + 1]],
                                obs, grp, j + 1, hi)

\* mutant: the merge assigns instead of adding
OmpMergeLocalOverwrite(cl, buf) == [i \in DOMAIN cl |-> buf[i]]

\* the body of the critical section: clusters[i] += local[i] for every i
OmpMergeLocal(cl, buf) ==
    [i \in DOMAIN cl |-> [x |-> AddR(cl[i].x, buf[i].x),
                          y |-> AddR(cl[i].y, buf[i].y),
                          count |-> cl[i].count + buf[i].count]]

\* calculo dos centroides, the iterations in `mine`: only counts > 0
OmpDivide(cl, mine) ==
    [i \in DOMAIN cl |-> IF i \in mine /\ cl[i].count > 0
                         THEN [x |-> DivI(cl[i].x, cl[i].count),
                               y |-> DivI(cl[i].y, cl[i].count),
                               count |-> cl[i].count]
                         ELSE cl[i]]

\* mutant: the reassignment classifies with the last-minimum scan
OmpAssignChunkLastMin(grp, obs, cl, kk, mine) ==
    [j \in DOMAIN grp |-> IF j \in mine THEN calculateNearstLastMin(obs[j], cl, kk)
                                        ELSE grp[j]]

\* etapas 3 e 4, the iterations in `mine`
OmpAssignChunk(grp, obs, cl, kk, mine) ==
    [j \in DOMAIN grp |-> IF j \in mine THEN calculateNearst(obs[j], cl, kk) ELSE grp[j]]

\* the do-while of kMeans_omp run by a single thread from the labels grp: the
\* one thread accumulates every observation, merges once, divides every
\* centroid (cl) and reassigns every observation (new); cl and new are bound
\* as values, so each pass is computed once
RECURSIVE OmpOneThread(_, _, _)
OmpOneThread(obs, grp, kk) ==
    CHOOSE r \in UNION {
        {IF Churn(grp, new) > Len(obs) \div ErrDivisor
         THEN OmpOneThread(obs, new, kk)
         ELSE [groups |-> new, clusters |-> cl]
           : new \in {OmpAssignChunk(grp, obs, cl, kk, 1..Len(obs))}}
           : cl \in {OmpDivide(OmpMergeLocal(ZeroClusters(kk),
                                   OmpAccumulateLocal(ZeroClusters(kk), obs, grp,
                                                      1, Len(obs))),
                               1..kk)}} : TRUE

Team == 1..nthreads
AllAt(p) == \A t \in Team : wpc[t] = p

OmpCall ==
    /\ Running("omp") /\ pc = "call"
    /\ IF k <= 1
       THEN /\ clusters' = <<[x |-> DivI(Rat(SumSeq([i \in 1..size |-> pts[i].x]), 1), size),
                              y |-> DivI(Rat(SumSeq([i \in 1..size |-> pts[i].y]), 1), size),
                              count |-> size]>>
            /\ groups' = ZeroGroups
            /\ pc' = "return"
            /\ nthreads' = 0
            /\ init' = init
       ELSE IF k < size
       THEN /\ clusters' = ZeroClusters(k)
            /\ \E g \in [1..size -> 0..(k - 1)] :
                  RandomLabels(g) /\ groups' = g /\ init' = g
            /\ pc' = "update"
            /\ nthreads' \in 1..MaxThreads
       ELSE /\ clusters' = SingletonClusters(pts, k)
            /\ groups' = SingletonGroups(pts)
            /\ pc' = "return"
            /\ nthreads' = 0
            /\ init' = init
    /\ changed' = 0
    /\ UNCHANGED <<pts, k, cur, wpc, local, lock, wchanged, result>>

\* inicializa clusters, then the team enters the first parallel region, every
\* thread with freshly calloc'ed local buffers
OmpReset ==
    /\ Running("omp") /\ pc = "update"
    /\ clusters' = ZeroClusters(k)
    /\ wpc' = [t \in Team |-> "scan"]
    /\ local' = [t \in Team |-> ZeroClusters(k)]
    /\ pc' = "accum"
    /\ UNCHANGED <<pts, k, init, cur, groups, changed, nthreads, lock, wchanged, result>>

\* one thread runs its share of the omp for (nowait): private buffers only
OmpAccumulate(t) ==
    /\ Running("omp") /\ pc = "accum" /\ wpc[t] = "scan"
    /\ local' = [local EXCEPT ![t] =
                    OmpAccumulateLocal(@, pts, groups, ChunkLo(t, nthreads, size),
                                       ChunkHi(t, nthreads, size))]
    /\ wpc' = [wpc EXCEPT ![t] = "wait"]
    /\ UNCHANGED <<pts, k, init, cur, pc, groups, clusters, changed, nthreads,
                   lock, wchanged, result>>

\* mutant: the merge block without omp critical
OmpEnterCriticalUnguarded(t) ==
    /\ Running("omp") /\ pc = "accum" /\ wpc[t] = "wait"
    /\ lock' = t
    /\ wpc' = [wpc EXCEPT ![t] = "crit"]
    /\ UNCHANGED <<pts, k, init, cur, pc, groups, clusters, changed, nthreads,
                   local, wchanged, result>>

\* omp critical: entered by one thread at a time
OmpEnterCritical(t) ==
    /\ Running("omp") /\ pc = "accum" /\ wpc[t] = "wait"
    /\ lock = 0
    /\ lock' = t
    /\ wpc' = [wpc EXCEPT ![t] = "crit"]
    /\ UNCHANGED <<pts, k, init, cur, pc, groups, clusters, changed, nthreads,
                   local, wchanged, result>>

\* the merge inside the critical section, leaving it, free(local_*)
OmpMerge(t) ==
    /\ Running("omp") /\ pc = "accum" /\ wpc[t] = "crit"
    /\ clusters' = OmpMergeLocal(clusters, local[t])
    /\ lock' = 0
    /\ local' = [local EXCEPT ![t] = <<>>]
    /\ wpc' = [wpc EXCEPT ![t] = "end"]
    /\ UNCHANGED <<pts, k, init, cur, pc, groups, changed, nthreads, wchanged, result>>

\* the join of the accumulation region, then the fork of omp parallel for
\* over the centroids
OmpJoinAccumulate ==
    /\ Running("omp") /\ pc = "accum" /\ AllAt("end")
    /\ pc' = "norm"
    /\ wpc' = [t \in Team |-> "ready"]
    /\ UNCHANGED <<pts, k, init, cur, groups, clusters, changed, nthreads,
                   local, lock, wchanged, result>>

\* one thread divides the centroids of its share
OmpNormalize(t) ==
    /\ Running("omp") /\ pc = "norm" /\ wpc[t] = "ready"
    /\ clusters' = OmpDivide(clusters, Chunk(t, nthreads, k))
    /\ wpc' = [wpc EXCEPT ![t] = "end"]
    /\ UNCHANGED <<pts, k, init, cur, pc, groups, changed, nthreads,
                   local, lock, wchanged, result>>

\* mutant: the assignment region starts without the join of the division region
OmpJoinNormalizeNoWait ==
    /\ Running("omp") /\ pc = "norm"
    /\ changed' = 0
    /\ pc' = "assign"
    /\ wpc' = [t \in Team |-> "ready"]
    /\ wchanged' = [t \in Team |-> 0]
    /\ UNCHANGED <<pts, k, init, cur, groups, clusters, nthreads, local, lock, result>>

\* the join of the division region, changed = 0, then the fork of the
\* assignment region with a zeroed private changed per thread
OmpJoinNormalize ==
    /\ Running("omp") /\ pc = "norm" /\ AllAt("end")
    /\ changed' = 0
    /\ pc' = "assign"
    /\ wpc' = [t \in Team |-> "ready"]
    /\ wchanged' = [t \in Team |-> 0]
    /\ UNCHANGED <<pts, k, init, cur, groups, clusters, nthreads, local, lock, result>>

\* mutant: the loop of etapas 3 e 4 without the worksharing for: every thread
\* runs all the iterations
OmpAssignAll(t) ==
    /\ Running("omp") /\ pc = "assign" /\ wpc[t] = "ready"
    /\ groups' = OmpAssignChunk(groups, pts, clusters, k, 1..size)
    /\ wchanged' = [wchanged EXCEPT ![t] = Churn(groups, groups')]
    /\ wpc' = [wpc EXCEPT ![t] = "end"]
    /\ UNCHANGED <<pts, k, init, cur, pc, clusters, changed, nthreads,
                   local, lock, result>>

\* one thread reassigns the observations of its share
OmpAssign(t) ==
    /\ Running("omp") /\ pc = "assign" /\ wpc[t] = "ready"
    /\ groups' = OmpAssignChunk(groups, pts, clusters, k, Chunk(t, nthreads, size))
    /\ wchanged' = [wchanged EXCEPT ![t] = Churn(groups, groups')]
    /\ wpc' = [wpc EXCEPT ![t] = "end"]
    /\ UNCHANGED <<pts, k, init, cur, pc, clusters, changed, nthreads,
                   local, lock, result>>

\* the join of the assignment region: the reduction adds the private counters
\* to changed, then the while test
OmpLoopTest ==
    /\ Running("omp") /\ pc = "assign" /\ AllAt("end")
    /\ changed' = changed + SumSeq(wchanged)
    /\ pc' = IF changed' > minAcceptedError THEN "update" ELSE "return"
    /\ wpc' = <<>>
    /\ local' = <<>>
    /\ wchanged' = <<>>
    /\ UNCHANGED <<pts, k, init, cur, groups, clusters, nthreads, lock, result>>

\* ------------------------------------------------ kMeans_omp_gpu (offload)
\* the caller's cent_x, cent_y, cent_count: k entries, at least the one the
\* k <= 1 branch writes
GpuArrays == ZeroClusters(IF k > 1 THEN k ELSE 1)

\* the k <= 1 branch: sums of all coordinates divided by n
GpuSingle(obs) ==
    LET n == Len(obs)
        sum_x == SumSeq([i \in 1..n |-> obs[i].x])
        sum_y == SumSeq([i \in 1..n |-> obs[i].y])
    IN  [x |-> DivI(Rat(sum_x, 1), n), y |-> DivI(Rat(sum_y, 1), n), count |-> n]

\* the accumulation loop of passo 2 over points i..n: labels outside [0, k)
\* are skipped
RECURSIVE GpuAccumulate(_, _, _, _, _)
GpuAccumulate(cl, obs, grp, kk, i) ==
    IF i > Len(obs) THEN cl
    ELSE LET g == grp[i]
         IN  IF g >= 0 /\ g < kk
             THEN GpuAccumulate([cl EXCEPT ![g + 1] = [x |-> AddI(@.x, obs[i].x),
                                                      y |-> AddI(@.y, obs[i].y),
                                                      count |-> @.count + 1]],
                                obs, grp, kk, i + 1)
             ELSE GpuAccumulate(cl, obs, grp, kk, i + 1)

\* mutant: the division loop without the cent_count > 0 test
GpuDivideNoTest(cl) ==
    [c \in DOMAIN cl |-> [x |-> DivI(cl[c].x, cl[c].count),
                          y |-> DivI(cl[c].y, cl[c].count),
                          count |-> cl[c].count]]

\* the division loop of passo 2: only centroids with cent_count > 0
GpuDivide(cl) ==
    [c \in DOMAIN cl |-> IF cl[c].count > 0
                         THEN [x |-> DivI(cl[c].x, cl[c].count),
                               y |-> DivI(cl[c].y, cl[c].count),
                               count |-> cl[c].count]
                         ELSE cl[c]]

GpuUpdateStep(obs, grp, kk) == GpuDivide(GpuAccumulate(ZeroClusters(kk), obs, grp, kk, 1))

\* the target region: every work-item classifies its own point
GpuAssignStep(obs, cl, kk) == [i \in DOMAIN obs |-> GpuNearest(obs[i], cl, kk)]

GpuCall ==
    /\ Running("gpu") /\ pc = "call"
    /\ IF k <= 1
       THEN /\ clusters' = [GpuArrays EXCEPT ![1] = GpuSingle(pts)]
            /\ groups' = ZeroGroups
            /\ pc' = "return"
            /\ init' = init
       ELSE /\ clusters' = GpuArrays
            /\ \E g \in [1..size -> 0..(k - 1)] :
                  RandomLabels(g) /\ groups' = g /\ init' = g
            /\ pc' = "update"
    /\ changed' = 0
    /\ UNCHANGED <<pts, k, cur, team, result>>

\* passo 2 on the host, changed = 0, then the launch of the target region:
\* one work-item per point, each with its private copy of changed
GpuUpdate ==
    /\ Running("gpu") /\ pc = "update"
    /\ clusters' = GpuUpdateStep(pts, groups, k)
    /\ changed' = 0
    /\ pc' = "assign"
    /\ wpc' = [i \in 1..size |-> "ready"]
    /\ wchanged' = [i \in 1..size |-> 0]
    /\ UNCHANGED <<pts, k, init, cur, groups, nthreads, local, lock, result>>

\* the work-item of point i: classifies it, writes groups[i] and counts the
\* change in its private changed
GpuAssign(i) ==
    /\ Running("gpu") /\ pc = "assign" /\ wpc[i] = "ready"
    /\ LET best == GpuNearest(pts[i], clusters, k)
       IN  /\ groups' = [groups EXCEPT ![i] = best]
           /\ wchanged' = [wchanged EXCEPT ![i] = IF best # groups[i] THEN 1 ELSE 0]
    /\ wpc' = [wpc EXCEPT ![i] = "end"]
    /\ UNCHANGED <<pts, k, init, cur, pc, clusters, changed, nthreads,
                   local, lock, result>>

\* the end of the target region: the reduction adds the private counters to
\* changed, groups is mapped back, then the while test
GpuLoopTest ==
    /\ Running("gpu") /\ pc = "assign"
    /\ \A i \in 1..size : wpc[i] = "end"
    /\ changed' = changed + SumSeq(wchanged)
    /\ pc' = IF changed' > minAcceptedError THEN "update" ELSE "return"
    /\ wpc' = <<>>
    /\ wchanged' = <<>>
    /\ UNCHANGED <<pts, k, init, cur, groups, clusters, nthreads, local, lock, result>>

\* return clusters: the caller keeps the result and resets the labels for the
\* next engine
Return ==
    /\ cur \in DOMAIN Order /\ pc = "return"
    /\ result' = [result EXCEPT ![Order[cur]] =
                    [done |-> TRUE, groups |-> groups, clusters |-> clusters]]
    /\ cur' = cur + 1
    /\ pc' = "call"
    /\ groups' = ZeroGroups
    /\ clusters' = <<>>
    /\ changed' = 0
    /\ nthreads' = 0
    /\ UNCHANGED <<pts, k, init, wpc, local, lock, wchanged>>

Next ==
    \/ SeqCall \/ SeqUpdate \/ SeqAssign
    \/ OmpCall \/ OmpReset \/ OmpJoinAccumulate \/ OmpJoinNormalize \/ OmpLoopTest
    \/ \E t \in 1..nthreads :
          \/ OmpAccumulate(t) \/ OmpEnterCritical(t) \/ OmpMerge(t)
          \/ OmpNormalize(t) \/ OmpAssign(t)
    \/ GpuCall \/ GpuUpdate \/ GpuLoopTest
    \/ \E i \in 1..size : GpuAssign(i)
    \/ Return

Spec == Init /\ [][Next]_vars

\* the program keeps running: the thread of the caller, and in a parallel
\* region some thread of the team, takes its next step while one is possible
FairSpec == Spec /\ WF_vars(Next)

\* ================================================================= claims
General == k > 1 /\ k < size
Returned(e) == result[e].done
SumX == SumSeq([j \in 1..size |-> pts[j].x])
SumY == SumSeq([j \in 1..size |-> pts[j].y])
InRange(grp) == \A j \in DOMAIN grp : grp[j] >= 0 /\ grp[j] < k
CountSum(cl) == SumSeq([i \in DOMAIN cl |-> cl[i].count])
\* squared distance of observation o to centroid c, as num / den
DistNum(o, c) == (c.x.n - o.x * c.x.d) * (c.x.n - o.x * c.x.d) * c.y.d * c.y.d
                 + (c.y.n - o.y * c.y.d) * (c.y.n - o.y * c.y.d) * c.x.d * c.x.d
DistDen(c) == c.x.d * c.x.d * c.y.d * c.y.d
Closer(o, a, b) == DistNum(o, a) * DistDen(b) < DistNum(o, b) * DistDen(a)
Defined(cl) == \A i \in DOMAIN cl : cl[i].x.d # 0 /\ cl[i].y.d # 0
\* the running engine has just completed an assignment pass of its loop
JustAssigned ==
    /\ k > 1 /\ (k < size \/ Running("gpu"))
    /\ pc = "return" \/ (pc = "update" /\ changed > 0)

\* C1: from the same initial labelling, with 1 < k < n, the three engines end
\* with the same label for every point.
C1_CrossEngineEquivalence ==
    (General /\ \A e \in Engines : Returned(e)) =>
        /\ result["seq"].groups = result["omp"].groups
        /\ result["omp"].groups = result["gpu"].groups

\* C2: for k <= 1 every engine returns without iterating, with one centroid
\* that is the mean of all points and has count n, and every label 0.
C2_SingleCluster ==
    k <= 1 =>
        /\ pc \in {"call", "return"}
        /\ \A e \in Engines : Returned(e) =>
              LET c == result[e].clusters[1]
              IN  /\ Len(result[e].clusters) = 1
                  /\ c.count = size
                  /\ c.x.d # 0 /\ c.x.n * size = SumX * c.x.d
                  /\ c.y.d # 0 /\ c.y.n * size = SumY * c.y.d
                  /\ \A j \in 1..size : result[e].groups[j] = 0
C2_Witness == k <= 1 /\ size >= 2 /\ SumX > 0 /\ \A e \in Engines : Returned(e)

\* the singleton result of the k >= n branch, for engine e
SingletonResult(e) ==
    /\ Len(result[e].clusters) = k
    /\ \A i \in 1..size :
          /\ result[e].groups[i] = i - 1
          /\ result[e].clusters[i] = [x |-> Rat(pts[i].x, 1), y |-> Rat(pts[i].y, 1),
                                      count |-> 1]
    /\ \A i \in (size + 1)..k : result[e].clusters[i].count = 0

\* C3: for k >= n, k > 1, kMeans and kMeans_omp return without iterating with
\* label[i] = i, centroid i = point i with count 1, centroids n..k-1 with count 0.
C3_Singletons ==
    (k > 1 /\ k >= size) =>
        \A e \in {"seq", "omp"} :
            /\ Running(e) => pc \in {"call", "return"}
            /\ Returned(e) => SingletonResult(e)
C3_Witness == k > size /\ size >= 2 /\ Returned("seq") /\ Returned("omp")

\* C4: for k >= n, k > 1, kMeans_omp_gpu also returns the singleton result
\* without running the initialisation/iteration loop.
C4_GpuSingletons ==
    (k > 1 /\ k >= size) =>
        /\ Running("gpu") => pc \in {"call", "return"}
        /\ Returned("gpu") => SingletonResult("gpu")

\* C5: for 1 < k < n, once an engine has terminated (it is at its return), one
\* more nearest-centroid assignment against the centroids it returns changes at
\* most floor(n/10000) labels.
C5_PostHocConvergence ==
    (General /\ pc = "return") =>
        Churn(groups, [j \in 1..size |-> calculateNearst(pts[j], clusters, k)])
            <= size \div ErrDivisor
C5_Witness ==
    /\ General /\ pc = "return" /\ Running("gpu")
    /\ groups # init

\* C6: for 1 < k < n the member counts add up to n at the end of every update
\* step (in kMeans_omp once all threads have merged) and so at the return.
C6_CountSum ==
    (General /\ pc \in {"norm", "assign", "return"}) => CountSum(clusters) = size
C6_Witness ==
    /\ General /\ Running("omp") /\ pc = "norm" /\ nthreads > 1
    /\ \E i \in DOMAIN clusters : clusters[i].count = 0

\* C7: for 1 < k < n every label is in [0, k) after the random initialisation
\* and after every assignment step, empty clusters included.
C7_LabelRange ==
    (General /\ pc # "call") => InRange(groups)
C7_Witness ==
    /\ General /\ JustAssigned /\ changed > 0
    /\ \E i \in DOMAIN clusters : clusters[i].count = 0

\* C8: no engine divides by a zero member count: a centroid never holds the
\* quotient of a division by zero.
C8_NoDivisionByZero ==
    Defined(clusters)

\* C9: against centroids with defined coordinates the classifier returns the
\* smallest index among those of least squared distance.
C9_NearestLowestIndex ==
    (JustAssigned /\ Defined(clusters)) =>
        \A j \in 1..size :
            LET g == groups[j] + 1
            IN  /\ g \in 1..k
                /\ \A c \in 1..k : ~Closer(pts[j], clusters[c], clusters[g])
                /\ \A c \in 1..(g - 1) : Closer(pts[j], clusters[g], clusters[c])
C9_Witness ==
    /\ JustAssigned /\ Defined(clusters)
    /\ \E j \in 1..size : \E c \in 1..k :
          /\ c > groups[j] + 1
          /\ ~Closer(pts[j], clusters[groups[j] + 1], clusters[c])

\* C10: on the four scenario points with k = 2 and initial labels 0,0,1,1 every
\* engine does exactly one pass: the update gives (0, 1/2) and (10, 1/2) with
\* count 2 each, the assignment changes no label and the loop exits.
C10_Scenario ==
    (pts = Scenario /\ k = 2 /\ init = <<0, 0, 1, 1>>) =>
        /\ pc \in {"update", "accum", "norm"} => (changed = 0 /\ groups = init)
        /\ pc = "update" => clusters = ZeroClusters(2)
        /\ pc \in {"assign", "return"} =>
              /\ clusters[1].count = 2 /\ clusters[2].count = 2
              /\ RatEq(clusters[1].x, Rat(0, 1)) /\ RatEq(clusters[1].y, Rat(1, 2))
              /\ RatEq(clusters[2].x, Rat(10, 1)) /\ RatEq(clusters[2].y, Rat(1, 2))
        /\ pc = "return" => (changed = 0 /\ groups = init)
C10_Witness ==
    /\ pts = Scenario /\ k = 2 /\ init = <<0, 0, 1, 1>>
    /\ Running("gpu") /\ pc = "return"
    /\ Returned("seq") /\ Returned("omp")

\* the labels and the member counts of a result
LabelsAndCounts(r) ==
    [groups |-> r.groups, count |-> [i \in DOMAIN r.clusters |-> r.clusters[i].count]]

\* C11: for a given point set, k and initial labelling, kMeans_omp ends with
\* the same labels and the same member counts whatever the team size and the
\* order in which the threads enter the critical section: they are those of
\* the run by one thread.
C11_WorkerCountInvariance ==
    (General /\ Running("omp") /\ pc = "return") =>
        LabelsAndCounts([groups |-> groups, clusters |-> clusters])
            = LabelsAndCounts(OmpOneThread(pts, init, k))
C11_Witness ==
    /\ General /\ Running("omp") /\ pc = "return"
    /\ nthreads > 1 /\ groups # init

\* the running engine is inside its update/assign loop
InLoop == k > 1 /\ (k < size \/ Running("gpu")) /\ cur \in DOMAIN Order
\* no observation carries the label of centroid i (1-based)
Empty(i) == \A j \in 1..size : groups[j] # i - 1
\* a and b are the same value (finite and equal, or both not finite)
SameValue(a, b) == (a.d = 0) = (b.d = 0) /\ a.n * b.d = b.n * a.d

Members(i) == {j \in 1..size : groups[j] = i - 1}
MemberSumX(i) == SumSeq([j \in 1..size |-> IF groups[j] = i - 1 THEN pts[j].x ELSE 0])
MemberSumY(i) == SumSeq([j \in 1..size |-> IF groups[j] = i - 1 THEN pts[j].y ELSE 0])

\* C13 (the part within reach, n < 10000, where the last pass changes no
\* label): at the return of every engine, for 1 < k < n, the count of each
\* centroid is the number of points that carry its label and, when that is not
\* zero, its coordinates are the mean of those points.
C13_CentroidsDescribeLabels ==
    (General /\ pc = "return") =>
        \A i \in 1..k :
            /\ clusters[i].count = Cardinality(Members(i))
            /\ clusters[i].count > 0 =>
                  /\ SameValue(clusters[i].x, Rat(MemberSumX(i), clusters[i].count))
                  /\ SameValue(clusters[i].y, Rat(MemberSumY(i), clusters[i].count))

\* the sums and the count, for every centroid, of the observations of the
\* set M that carry its label
SetSums(M) ==
    [i \in 1..k |->
        [x |-> Rat(SumSeq([j \in 1..size |->
                      IF j \in M /\ groups[j] = i - 1 THEN pts[j].x ELSE 0]), 1),
         y |-> Rat(SumSeq([j \in 1..size |->
                      IF j \in M /\ groups[j] = i - 1 THEN pts[j].y ELSE 0]), 1),
         count |-> Cardinality({j \in M : groups[j] = i - 1})]]
\* the observations of the threads that have left the critical section
Merged ==
    {j \in 1..size : \E t \in Team : wpc[t] = "end" /\ j \in Chunk(t, nthreads, size)}
\* in the accumulation region: one thread at most in the critical section, and
\* the shared sums hold each left thread's share once and nothing else
AccumulationState ==
    pc = "accum" =>
        /\ \A t, u \in Team : (wpc[t] = "crit" /\ wpc[u] = "crit") => t = u
        /\ \A M \in {Merged} : clusters = SetSums(M)
\* in the accumulation region: a thread that ends its scan has written its own
\* buffers only, and the shared sums change only as a thread leaves the
\* critical section
AccumulationStep ==
    (pc = "accum" /\ pc' = "accum") =>
        /\ \A t \in Team : (wpc[t] = "scan" /\ wpc'[t] # "scan") =>
              /\ clusters' = clusters
              /\ \A u \in Team \ {t} : local'[u] = local[u]
        /\ clusters' # clusters =>
              \E t \in Team : wpc[t] = "crit" /\ wpc'[t] = "end"

\* C14: in the accumulation region of kMeans_omp a scanning thread writes its
\* private buffers only, the shared centroids are written only in the critical
\* section, which holds one thread at most, and every thread's buffers are
\* added to the shared centroids exactly once per iteration.
C14_PrivateScanSerialMerge == []AccumulationState /\ [][AccumulationStep]_vars
C14_Witness ==
    /\ General /\ Running("omp") /\ pc = "accum" /\ nthreads > 1
    /\ \E t, u \in Team : /\ wpc[t] = "crit" /\ wpc[u] = "wait"
                          /\ \E i \in 1..k : local[t][i].count > 0 /\ local[u][i].count > 0

\* C15 (as claimed): no thread is in the critical section, adding its buffers
\* to the shared centroids, while another thread of the team still scans.
C15_MergeAfterAllScans ==
    pc = "accum" =>
        \A t, u \in Team : wpc[t] = "crit" => wpc[u] # "scan"

\* C15 (amended): a thread adds its buffers to the shared centroids only after
\* it has scanned its own share completely; the loop is nowait, so it may do
\* so while other threads still scan theirs.
C15_MergeAfterOwnScan ==
    pc = "accum" =>
        \A t \in Team : wpc[t] = "crit" =>
            \A M \in {Chunk(t, nthreads, size)} : local[t] = SetSums(M)
C15_Witness ==
    /\ Running("omp") /\ pc = "accum"
    /\ \E t, u \in Team : /\ wpc[t] = "crit" /\ wpc[u] = "scan"
                          /\ \E i \in 1..k : local[t][i].count > 0

\* the shared sums are complete: every observation is in them once
SumsComplete == \A M \in {1..size} : clusters = SetSums(M)
\* every centroid with members is the mean of its members
AllNormalized ==
    \A i \in 1..k :
        clusters[i].count > 0 =>
            /\ SameValue(clusters[i].x, Rat(MemberSumX(i), clusters[i].count))
            /\ SameValue(clusters[i].y, Rat(MemberSumY(i), clusters[i].count))
\* the region boundaries of kMeans_omp
RegionJoin ==
    Running("omp") =>
        /\ (pc = "accum" /\ pc' = "norm") => AllAt("end") /\ SumsComplete
        /\ (clusters' # clusters /\ pc' = "norm") => pc = "norm"
        /\ (groups' # groups /\ pc' = "assign") => pc = "assign"
        /\ (pc = "norm" /\ pc' = "assign") => AllAt("end") /\ AllNormalized
        /\ (pc = "assign" /\ pc' # "assign") =>
              /\ AllAt("end")
              /\ changed' = SumSeq(wchanged)
              /\ pc' = "update" <=> changed' > minAcceptedError


\* C16: in kMeans_omp the division of the centroids starts only when every
\* thread has merged, the reassignment only when every centroid with members is
\* divided, and the while test reads changed only when every thread has
\* reassigned its share and the reduction has added the private counters.
C16_RegionsJoin == [][RegionJoin]_vars
C16_Witness ==
    /\ Running("omp") /\ pc = "assign" /\ nthreads > 1
    /\ AllAt("end") /\ \E t \in Team : wchanged[t] > 0


\* the control of the do-while of the three engines, for 1 < k < n
LoopStep ==
    (General /\ cur \in DOMAIN Order) =>
        /\ (pc = "call" /\ pc' # "call") => pc' = "update"
        /\ (pc = "update" /\ pc' # "update") => pc' \in {"accum", "assign"}
        /\ (pc' = "return" /\ pc # "return") => pc = "assign"
        /\ (pc = "assign" /\ pc' # "assign") =>
              /\ pc' \in {"update", "return"}
              /\ pc' = "update" <=> changed' > size \div ErrDivisor
              /\ pc' = "return" => changed' = 0
              /\ Running("seq") => changed' = Churn(groups, groups')

C18_Termination == (General /\ pc = "update") ~> (pc = "return")
C18_Witness ==
    /\ General /\ Running("seq") /\ pc = "return"
    /\ \E i \in 1..k : clusters[i].count = 0


\* the workers of the assignment step and the points of each: the threads of
\* the team with their shares, or one work-item per point
Workers == IF Running("omp") THEN Team ELSE 1..size
Share(w) == IF Running("omp") THEN Chunk(w, nthreads, size) ELSE {w}
Classified(j) == IF Running("omp") THEN calculateNearst(pts[j], clusters, k)
                                   ELSE GpuNearest(pts[j], clusters, k)
\* in the assignment step every point is in the share of exactly one worker
AssignShares ==
    ((Running("omp") \/ Running("gpu")) /\ pc = "assign") =>
        \A j \in 1..size : Cardinality({w \in Workers : j \in Share(w)}) = 1
\* when the last work-item of the target region is done every point carries
\* its classification
AssignDone ==
    (Running("gpu") /\ pc = "assign" /\ \A i \in 1..size : wpc[i] = "end") =>
        groups = GpuAssignStep(pts, clusters, k)
\* a worker that runs classifies the points of its share, leaves the other
\* labels and the centroids as they are and counts the labels it changed; the
\* join adds the counts of the workers, all of them done, to a zero changed
AssignStep ==
    ((Running("omp") \/ Running("gpu")) /\ pc = "assign") =>
        /\ clusters' = clusters
        /\ \A w \in Workers : (wpc[w] = "ready" /\ pc' = "assign") =>
              IF wpc'[w] = "end"
              THEN /\ \A j \in 1..size :
                         groups'[j] = IF j \in Share(w) THEN Classified(j) ELSE groups[j]
                   /\ wchanged'[w] = Cardinality({j \in Share(w) : groups'[j] # groups[j]})
                   /\ \A v \in Workers \ {w} : wchanged'[v] = wchanged[v] /\ wpc'[v] = wpc[v]
              ELSE wpc'[w] = "ready"
        /\ pc' # "assign" =>
              /\ \A w \in Workers : wpc[w] = "end"
              /\ groups' = groups
              /\ changed = 0
              /\ changed' = SumSeq(wchanged)

\* C19: in the assignment step of kMeans_omp and kMeans_omp_gpu every point is
\* classified by exactly one thread or work-item, which writes the labels of its
\* own points only; nothing writes the centroids; and after the join changed is
\* the number of labels the pass changed (the sum over the workers of the
\* labels each changed), in every interleaving.
C19_AssignmentStep == [](AssignShares /\ AssignDone) /\ [][AssignStep]_vars
C19_Witness ==
    /\ Running("omp") /\ pc = "assign" /\ nthreads > 1
    /\ \E t, u \in Team : wpc[t] = "ready" /\ wpc[u] = "end" /\ wchanged[u] > 0

====
